---- MODULE Spec2Model ----
(***************************************************************************)
(* IEEE 1115 battery sizing (src/process.py).                              *)
(*                                                                         *)
(* The script reads a discharge curve (Amps by duration) and a starting    *)
(* sequence of periods (duration, Amps, cycle), evaluates every section    *)
(* 1..numberOfSections that its skip test lets through, and derives the    *)
(* battery size and count from the largest section.                        *)
(*                                                                         *)
(* Numbers of the script are IEEE doubles. They are modelled exactly, as   *)
(* pairs <<n, d>> with d >= 0 and gcd(n, d) = 1: d > 0 is the rational     *)
(* n/d, <<1,0>> is +inf, <<-1,0>> is -inf and <<0,0>> is nan, which are    *)
(* the values numpy produces on a division by zero. Inputs are drawn from  *)
(* dyadic values, on which the double arithmetic of the script is exact.   *)
(* A zero of the discharge curve is taken as +0.0.                         *)
(***************************************************************************)
EXTENDS Integers, Sequences, FiniteSets

\* ------------------------------------------------------------------ bounds
MaxPeriods == 2
MaxSkipPeriods == 3

Durations == {1, 2}
Currents == {0, 1, 2}
CycleIds == {1, 2}
PositiveAmps == {1, 4}
FaultyAmps == {-1, 0, 1}

\* ------------------------------------------------------- double arithmetic
Sign(x) == IF x > 0 THEN 1 ELSE IF x < 0 THEN -1 ELSE 0

Abs(x) == IF x < 0 THEN -x ELSE x

RECURSIVE GCD(_, _)
GCD(a, b) == IF b = 0 THEN a ELSE GCD(b, a % b)

Norm(n, d) ==
  IF d = 0 THEN <<Sign(n), 0>>
  ELSE LET s == Sign(d)
           g == GCD(Abs(n), Abs(d))
       IN  <<(s * n) \div g, (s * d) \div g>>

F(i) == <<i, 1>>

NaN == <<0, 0>>

IsFinite(a) == a[2] # 0

FAdd(a, b) ==
  IF a[2] = 0 /\ b[2] = 0
  THEN (IF a = b THEN a ELSE NaN)
  ELSE Norm(a[1] * b[2] + b[1] * a[2], a[2] * b[2])

FMul(a, b) == Norm(a[1] * b[1], a[2] * b[2])

\* a / b on doubles, numpy's division: no exception on a zero divisor. An
\* infinite a over a finite b keeps a's sign when b >= 0 and changes it when
\* b < 0; inf / inf, 0 / 0 and anything with nan are nan
FDiv(a, b) ==
  IF a[2] = 0 /\ b[2] # 0
  THEN <<(IF b[1] < 0 THEN -a[1] ELSE a[1]), 0>>
  ELSE Norm(a[1] * b[2], a[2] * b[1])

\* a <= b on doubles (false as soon as one side is nan)
FLe(a, b) ==
  IF a = NaN \/ b = NaN THEN FALSE
  ELSE IF a[2] = 0 /\ b[2] = 0 THEN a[1] <= b[1]
  ELSE a[1] * b[2] <= b[1] * a[2]

\* faulty variant: the smallest element is taken
NpMin(arr) ==
  IF \E i \in 1..Len(arr) : arr[i] = NaN THEN NaN
  ELSE CHOOSE m \in {arr[i] : i \in 1..Len(arr)} :
         \A i \in 1..Len(arr) : FLe(m, arr[i])

\* numpy's ndarray.max() of a non-empty array: nan if any element is nan
NpMax(arr) ==
  IF \E i \in 1..Len(arr) : arr[i] = NaN THEN NaN
  ELSE CHOOSE m \in {arr[i] : i \in 1..Len(arr)} :
         \A i \in 1..Len(arr) : FLe(arr[i], m)

\* numpy's ndarray.sum(): 0.0 for the empty array
RECURSIVE NpSum(_)
NpSum(arr) ==
  IF arr = <<>> THEN F(0)
  ELSE FAdd(NpSum(SubSeq(arr, 1, Len(arr) - 1)), arr[Len(arr)])

\* faulty variant: the conversion rounds down
PyIntFloor(a) == a[1] \div a[2]

\* Python's int() of a finite double: truncation toward zero
PyInt(a) ==
  IF a[1] >= 0 THEN a[1] \div a[2] ELSE -((-a[1]) \div a[2])

\* ------------------------------------------------------------------- state
VARIABLES
  startingSequence,         \* the periods: [duration, amps, cycle], 1..length
  curve,                    \* ampsByDurationFunction on the durations queried
  testParams,               \* the IEEE1115 parameter object
  pc,                       \* position of the script
  section,                  \* loop variable of line 127
  requiredSizesPerSection,  \* array of the totals of the evaluated sections
  maximumSectionSize, uncorrectedSize, size,  \* doubles, once assigned
  numberOfBatteriesRequired, \* <<k>> once assigned the integer k
  printed,                  \* what the script has written so far
  error,                    \* the exception that ended the script
  call                      \* last direct call of an accessor and its outcome

vars == <<startingSequence, curve, testParams, pc, section,
          requiredSizesPerSection, maximumSectionSize, uncorrectedSize, size,
          numberOfBatteriesRequired, printed, error, call>>

None == "None"

\* a variable the script has not assigned yet
Unassigned == <<>>

NoError == [kind |-> "none", value |-> None]

NoCall == [op |-> "none", first |-> 0, last |-> 0, result |-> NoError]

startingSequenceLength == Len(startingSequence)


Ok(v) == [kind |-> "ok", value |-> v]

Raise(k, m) == [kind |-> k, value |-> m]

\* ------------------------------------------------------ array primitives
\* arr[i] of Python/numpy with a 0-based index: a negative index counts from
\* the end, anything else outside the array raises IndexError
PyIndex(arr, i) ==
  IF i >= 0 /\ i < Len(arr) THEN Ok(arr[i + 1])
  ELSE IF i < 0 /\ i >= -Len(arr) THEN Ok(arr[Len(arr) + i + 1])
  ELSE Raise("IndexError", "index out of bounds")

PyClamp(i, n) ==
  LET j == IF i < 0 THEN i + n ELSE i
  IN  IF j < 0 THEN 0 ELSE IF j > n THEN n ELSE j

\* arr[start:stop] of Python/numpy (0-based, stop exclusive, never raises)
PySlice(arr, start, stop) ==
  SubSeq(arr, PyClamp(start, Len(arr)) + 1, PyClamp(stop, Len(arr)))

RECURSIVE SumDurations(_)
SumDurations(rows) ==
  IF rows = <<>> THEN 0
  ELSE SumDurations(SubSeq(rows, 1, Len(rows) - 1)) + rows[Len(rows)].duration

\* -------------------------------------------------------------- accessors
\* raises IndexError unless 1 <= period <= startingSequenceLength
checkPeriod(period, periodName) ==
  IF period < 1 \/ period > startingSequenceLength
  THEN Raise("IndexError", periodName)
  ELSE Ok(None)

\* faulty variant: the slice stops one period short of lastPeriod
durationBetweenPeriodsShort(firstPeriod, lastPeriod) ==
  LET c1 == checkPeriod(firstPeriod, "durationBetweenPeriods::firstPeriod")
      c2 == checkPeriod(lastPeriod, "durationBetweenPeriods::lastPeriod")
  IN  IF c1.kind # "ok" THEN c1
      ELSE IF c2.kind # "ok" THEN c2
      ELSE IF firstPeriod > lastPeriod
      THEN Raise("IndexError", "durationBetweenPeriods: firstPeriod > lastPeriod")
      ELSE Ok(SumDurations(PySlice(startingSequence, firstPeriod - 1, lastPeriod - 1)))

durationBetweenPeriods(firstPeriod, lastPeriod) ==
  LET c1 == checkPeriod(firstPeriod, "durationBetweenPeriods::firstPeriod")
      c2 == checkPeriod(lastPeriod, "durationBetweenPeriods::lastPeriod")
  IN  IF c1.kind # "ok" THEN c1
      ELSE IF c2.kind # "ok" THEN c2
      ELSE IF firstPeriod > lastPeriod
      THEN Raise("IndexError", "durationBetweenPeriods: firstPeriod > lastPeriod")
      ELSE Ok(SumDurations(PySlice(startingSequence, firstPeriod - 1, lastPeriod)))

ampsAtPeriod(period) ==
  LET c == checkPeriod(period, "ampsAtPeriod::period")
      row == PyIndex(startingSequence, period - 1)
  IN  IF c.kind # "ok" THEN c
      ELSE IF row.kind # "ok" THEN row
      ELSE Ok(row.value.amps)

cycleAtPeriod(period) ==
  LET c == checkPeriod(period, "cycleAtPeriod::period")
      row == PyIndex(startingSequence, period - 1)
  IN  IF c.kind # "ok" THEN c
      ELSE IF row.kind # "ok" THEN row
      ELSE Ok(row.value.cycle)

\* ------------------------------------------------------- discharge curve
ampsByDurationFunction(duration) == F(curve[duration])

ktFactorFunction(duration) ==
  FDiv(testParams.nominalCapacity, ampsByDurationFunction(duration))


\* ---------------------------------------------------------- section loop
\* faulty variant: a section is skipped as well when the next load is the same
skipTestOrEqual(s) ==
  IF ~(s < startingSequenceLength) THEN Ok(FALSE)
  ELSE LET a == ampsAtPeriod(s)
           b == ampsAtPeriod(s + 1)
       IN  IF a.kind # "ok" THEN a
           ELSE IF b.kind # "ok" THEN b
           ELSE Ok(a.value <= b.value)

\* faulty variant: the next period is read without asking whether there is one
skipTestUnguarded(s) ==
  LET a == ampsAtPeriod(s)
      b == ampsAtPeriod(s + 1)
  IN  IF a.kind # "ok" THEN a
      ELSE IF b.kind # "ok" THEN b
      ELSE Ok(a.value < b.value)

\* line 128: the skip test, with Python's short-circuit "and"
skipTest(s) ==
  IF ~(s < startingSequenceLength) THEN Ok(FALSE)
  ELSE LET a == ampsAtPeriod(s)
           b == ampsAtPeriod(s + 1)
       IN  IF a.kind # "ok" THEN a
           ELSE IF b.kind # "ok" THEN b
           ELSE Ok(a.value < b.value)

\* faulty variant: Kt is taken on the period's own duration, not on the duration
\* from the period to the end of the section
RECURSIVE periodLoopOwnDuration(_, _, _, _)
periodLoopOwnDuration(s, period, previousLoad, requiredSectionSizes) ==
  IF period > s THEN Ok(requiredSectionSizes)
  ELSE
    LET a == ampsAtPeriod(period)
        d == durationBetweenPeriods(period, period)
    IN  IF a.kind # "ok" THEN a
        ELSE IF d.kind # "ok" THEN d
        ELSE
          LET load == a.value
              changeInLoad == load - previousLoad
              kt == ktFactorFunction(d.value)
              requiredSectionSize ==
                FMul(FMul(F(changeInLoad), kt), testParams.deratingFactorOnTemp)
          IN  periodLoopOwnDuration(s, period + 1, load,
                         Append(requiredSectionSizes, requiredSectionSize))

\* lines 137-148: the loop over the periods of section s, from `period` on
RECURSIVE periodLoop(_, _, _, _)
periodLoop(s, period, previousLoad, requiredSectionSizes) ==
  IF period > s THEN Ok(requiredSectionSizes)
  ELSE
    LET a == ampsAtPeriod(period)
        d == durationBetweenPeriods(period, s)
    IN  IF a.kind # "ok" THEN a
        ELSE IF d.kind # "ok" THEN d
        ELSE
          LET load == a.value
              changeInLoad == load - previousLoad
              durationToSectionEnd == d.value
              kt == ktFactorFunction(durationToSectionEnd)
              tempDeratingFactor == testParams.deratingFactorOnTemp
              requiredSectionSize ==
                FMul(FMul(F(changeInLoad), kt), tempDeratingFactor)
          IN  periodLoop(s, period + 1, load,
                         Append(requiredSectionSizes, requiredSectionSize))

\* lines 135-149: maxRequiredSectionSize of section s
evalSection(s) ==
  LET r == periodLoop(s, 1, 0, <<>>)
  IN  IF r.kind # "ok" THEN r ELSE Ok(NpSum(r.value))


\* ------------------------------------------------------------------ inputs
Rows == [duration : Durations, amps : Currents, cycle : CycleIds]

\* the starting sequences: 1..MaxPeriods periods, cycles numbered from 1 in
\* sequence order
StartingSequences ==
  UNION {{q \in [1..n -> Rows] :
            /\ q[1].cycle = 1
            /\ \A i \in 1..(n - 1) : q[i].cycle <= q[i + 1].cycle} :
         n \in 1..MaxPeriods}

LongestDuration == CHOOSE m \in Durations : \A d \in Durations : d <= m

\* the longest sequence of either family of inputs
LongestSequence ==
  IF MaxPeriods >= MaxSkipPeriods THEN MaxPeriods ELSE MaxSkipPeriods

CurveDomain == 1..(LongestSequence * LongestDuration)

RECURSIVE SumFromTo(_, _, _)
SumFromTo(q, i, j) == IF i > j THEN 0 ELSE q[i].duration + SumFromTo(q, i + 1, j)

\* the durations the sections 1..ns of sequence q can ask the curve for
QueriedDurations(q, ns) ==
  IF ns < 1 \/ ns > Len(q) THEN {}
  ELSE {SumFromTo(q, p, s) : <<p, s>> \in {x \in (1..ns) \X (1..ns) : x[1] <= x[2]}}

\* discharge curves, as the values the interpolation returns: on the
\* durations the run reads, either a positive curve or one that reaches zero
\* or goes negative; 1 everywhere else (those values are never read)
Curves(q, ns) ==
  {[d \in CurveDomain |-> IF d \in DOMAIN f THEN f[d] ELSE 1] :
     f \in [QueriedDurations(q, ns) -> PositiveAmps]
           \cup [QueriedDurations(q, ns) -> FaultyAmps]}

\* two parameter files; the script reads the values as they are, so that the
\* second one can hold a negative randomSize
Parameters ==
  {[nominalCapacity |-> F(1), deratingFactorOnTemp |-> F(1),
    randomSize |-> F(1), designMargin |-> F(1), agingFactor |-> F(2),
    finalTolerance |-> <<3, 4>>, verbose |-> TRUE],
   [nominalCapacity |-> F(2), deratingFactorOnTemp |-> <<1, 2>>,
    randomSize |-> F(-3), designMargin |-> F(2), agingFactor |-> <<3, 2>>,
    finalTolerance |-> F(1), verbose |-> FALSE]}

WithSections(par, ns) ==
  [nominalCapacity |-> par.nominalCapacity,
   numberOfSections |-> ns,
   verbose |-> par.verbose,
   deratingFactorOnTemp |-> par.deratingFactorOnTemp,
   randomSize |-> par.randomSize,
   designMargin |-> par.designMargin,
   agingFactor |-> par.agingFactor,
   finalTolerance |-> par.finalTolerance]

\* the state common to every start: nothing computed, nothing written
Fresh ==
  /\ section = 0
  /\ requiredSizesPerSection = <<>>
  /\ maximumSectionSize = Unassigned
  /\ uncorrectedSize = Unassigned
  /\ size = Unassigned
  /\ numberOfBatteriesRequired = Unassigned
  /\ printed = <<>>
  /\ error = NoError
  /\ call = NoCall

\* the script after it has read its three input files (line 99)
Init ==
  /\ startingSequence \in StartingSequences
  /\ \E ns \in 0..(startingSequenceLength + 1), par \in Parameters :
       /\ testParams = WithSections(par, ns)
       /\ curve \in Curves(startingSequence, ns)
  /\ pc = "checkSections"
  /\ Fresh

\* ----------------------------------------------------------------- actions
Emit(field, s) == printed' = Append(printed, [field |-> field, section |-> s])

Fail(e) ==
  /\ pc' = "failed"
  /\ error' = e

\* line 106: checkPeriod(testParams.numberOfSections)
CheckSections ==
  /\ pc = "checkSections"
  /\ LET c == checkPeriod(testParams.numberOfSections, "testParams.numberOfSections")
     IN  IF c.kind # "ok"
         THEN Fail(c) /\ UNCHANGED section
         ELSE pc' = "sections" /\ section' = 1 /\ UNCHANGED error
  /\ UNCHANGED <<startingSequence, curve, testParams, requiredSizesPerSection,
                 maximumSectionSize, uncorrectedSize, size,
                 numberOfBatteriesRequired, printed, call>>

\* the loop's step to the next section, or out of the loop (line 127)
NextSection ==
  IF section < testParams.numberOfSections
  THEN section' = section + 1 /\ pc' = "sections"
  ELSE section' = section /\ pc' = "cycleNb"

\* lines 127-152: one iteration of the loop over the sections
SectionStep ==
  /\ pc = "sections"
  /\ LET t == skipTest(section)
         r == evalSection(section)
     IN  IF t.kind # "ok"
         THEN Fail(t) /\ UNCHANGED <<section, requiredSizesPerSection, printed>>
         ELSE IF t.value
         THEN /\ IF testParams.verbose THEN Emit("skipped", section)
                                       ELSE UNCHANGED printed
              /\ NextSection
              /\ UNCHANGED <<requiredSizesPerSection, error>>
         ELSE IF r.kind # "ok"
         THEN Fail(r) /\ UNCHANGED <<section, requiredSizesPerSection, printed>>
         ELSE /\ requiredSizesPerSection' = Append(requiredSizesPerSection, r.value)
              /\ IF testParams.verbose THEN Emit("total", section)
                                       ELSE UNCHANGED printed
              /\ NextSection
              /\ UNCHANGED error
  /\ UNCHANGED <<startingSequence, curve, testParams, maximumSectionSize,
                 uncorrectedSize, size, numberOfBatteriesRequired, call>>

\* lines 153-154: the cycle of the last section, written first
CycleStep ==
  /\ pc = "cycleNb"
  /\ LET c == cycleAtPeriod(testParams.numberOfSections)
     IN  IF c.kind # "ok"
         THEN Fail(c) /\ UNCHANGED printed
         ELSE Emit("testedCycleNumber", 0) /\ pc' = "maximum" /\ UNCHANGED error
  /\ UNCHANGED <<startingSequence, curve, testParams, section,
                 requiredSizesPerSection, maximumSectionSize, uncorrectedSize,
                 size, numberOfBatteriesRequired, call>>

\* faulty variant: the maximum of no total at all is taken to be 0
MaximumStepDefault ==
  /\ pc = "maximum"
  /\ LET m == IF requiredSizesPerSection = <<>> THEN F(0)
              ELSE NpMax(requiredSizesPerSection)
     IN  /\ maximumSectionSize' = m
         /\ uncorrectedSize' = FAdd(m, testParams.randomSize)
         /\ printed' = printed \o <<[field |-> "maxSectionSize", section |-> 0],
                                    [field |-> "uncorrectedSize", section |-> 0]>>
         /\ pc' = "size"
  /\ UNCHANGED <<startingSequence, curve, testParams, section,
                 requiredSizesPerSection, size, numberOfBatteriesRequired,
                 error, call>>

\* lines 155-158: ndarray.max() raises ValueError on an empty array
MaximumStep ==
  /\ pc = "maximum"
  /\ IF requiredSizesPerSection = <<>>
     THEN /\ Fail(Raise("ValueError", "zero-size array to reduction operation maximum"))
          /\ UNCHANGED <<maximumSectionSize, uncorrectedSize, printed>>
     ELSE LET m == NpMax(requiredSizesPerSection)
          IN  /\ maximumSectionSize' = m
              /\ uncorrectedSize' = FAdd(m, testParams.randomSize)
              /\ printed' = printed \o <<[field |-> "maxSectionSize", section |-> 0],
                                         [field |-> "uncorrectedSize", section |-> 0]>>
              /\ pc' = "size"
              /\ UNCHANGED error
  /\ UNCHANGED <<startingSequence, curve, testParams, section,
                 requiredSizesPerSection, size, numberOfBatteriesRequired, call>>

\* lines 159-161
SizeStep ==
  /\ pc = "size"
  /\ size' = FMul(FMul(uncorrectedSize, testParams.designMargin), testParams.agingFactor)
  /\ Emit("correctedSize", 0)
  /\ pc' = "batteries"
  /\ UNCHANGED <<startingSequence, curve, testParams, section,
                 requiredSizesPerSection, maximumSectionSize, uncorrectedSize,
                 numberOfBatteriesRequired, error, call>>

\* line 162: the operand of int()
batteriesQuotient ==
  FDiv(FAdd(FMul(size, testParams.finalTolerance), testParams.nominalCapacity),
       testParams.nominalCapacity)

\* line 162: int() raises ValueError on nan and OverflowError on an infinity
toInt(q) ==
  IF q = NaN THEN Raise("ValueError", "cannot convert float NaN to integer")
  ELSE IF ~IsFinite(q)
  THEN Raise("OverflowError", "cannot convert float infinity to integer")
  ELSE Ok(PyInt(q))

\* lines 162-163
BatteriesStep ==
  /\ pc = "batteries"
  /\ LET n == toInt(batteriesQuotient)
     IN  IF n.kind # "ok"
         THEN Fail(n) /\ UNCHANGED <<numberOfBatteriesRequired, printed>>
         ELSE /\ numberOfBatteriesRequired' = <<n.value>>
              /\ Emit("numberOfBatteriesRequired", 0)
              /\ pc' = "done"
              /\ UNCHANGED error
  /\ UNCHANGED <<startingSequence, curve, testParams, section,
                 requiredSizesPerSection, maximumSectionSize, uncorrectedSize,
                 size, call>>

Next ==
  \/ CheckSections
  \/ SectionStep
  \/ CycleStep
  \/ MaximumStep
  \/ SizeStep
  \/ BatteriesStep

Spec == Init /\ [][Next]_vars


\* ------------------------------------- the script on longer, sound inputs
\* starting sequences of up to MaxSkipPeriods periods, all of one cycle
SkipSequences ==
  UNION {[1..n -> [duration : Durations, amps : Currents, cycle : {1}]] :
         n \in 1..MaxSkipPeriods}

\* discharge curves that are positive wherever the run reads them
PositiveCurves(q, ns) ==
  {[d \in CurveDomain |-> IF d \in DOMAIN f THEN f[d] ELSE 1] :
     f \in [QueriedDurations(q, ns) -> PositiveAmps]}

\* the script after it has read its three input files (line 99), on a
\* positive curve and a numberOfSections that designates a period
InitSkip ==
  /\ startingSequence \in SkipSequences
  /\ \E ns \in 1..startingSequenceLength, par \in Parameters :
       /\ testParams = WithSections(par, ns)
       /\ curve \in PositiveCurves(startingSequence, ns)
  /\ pc = "checkSections"
  /\ Fresh

SpecSkip == InitSkip /\ [][Next]_vars


\* ------------------------------------------- the accessors called directly
\* arguments of the direct calls: every period, and indexes on both sides
Indexes == (-(MaxPeriods + 1))..(MaxPeriods + 1)

InitAccess ==
  /\ startingSequence \in StartingSequences
  /\ testParams = WithSections(CHOOSE par \in Parameters : par.verbose,
                               startingSequenceLength)
  /\ curve = [d \in CurveDomain |-> 1]
  /\ pc = "accessors"
  /\ Fresh

Called(op, first, last, result) ==
  /\ call' = [op |-> op, first |-> first, last |-> last, result |-> result]
  /\ UNCHANGED <<startingSequence, curve, testParams, pc, section,
                 requiredSizesPerSection, maximumSectionSize, uncorrectedSize,
                 size, numberOfBatteriesRequired, printed, error>>

CallDurationBetweenPeriods ==
  \E first \in Indexes, last \in Indexes :
    Called("durationBetweenPeriods", first, last, durationBetweenPeriods(first, last))

CallAmpsAtPeriod ==
  \E period \in Indexes :
    Called("ampsAtPeriod", period, period, ampsAtPeriod(period))

CallCycleAtPeriod ==
  \E period \in Indexes :
    Called("cycleAtPeriod", period, period, cycleAtPeriod(period))

NextAccess ==
  \/ CallDurationBetweenPeriods
  \/ CallAmpsAtPeriod
  \/ CallCycleAtPeriod

SpecAccess == InitAccess /\ [][NextAccess]_vars


\* ------------------------------------------------------------------ claims
InRange(p) == 1 <= p /\ p <= startingSequenceLength

DurationCall == call.op = "durationBetweenPeriods"

ValidDurationCall ==
  DurationCall /\ InRange(call.first) /\ InRange(call.last) /\ call.first <= call.last

\* C6: for 1 <= first <= last <= periodCount, durationBetweenPeriods(first,
\* last) is the sum of the durations of periods first..last, both inclusive;
\* it does not decrease when last grows, and for first = last it is the
\* duration of that one period.
C6_CumulativeDuration ==
  ValidDurationCall =>
    /\ call.result = Ok(SumFromTo(startingSequence, call.first, call.last))
    /\ call.first = call.last =>
         call.result = Ok(startingSequence[call.first].duration)
    /\ call.last < startingSequenceLength =>
         LET next == durationBetweenPeriods(call.first, call.last + 1)
         IN  next.kind = "ok" /\ call.result.value <= next.value

C6_Witness ==
  /\ ValidDurationCall
  /\ call.first < call.last
  /\ call.result.kind = "ok"
  /\ call.result.value > startingSequence[call.first].duration


OrderCall ==
  DurationCall /\ InRange(call.first) /\ InRange(call.last) /\ call.first > call.last

\* the kind of error the range check raises
RangeErrorKind == checkPeriod(startingSequenceLength + 1, "period").kind

\* the range check of the three accessors: an index < 1 or > periodCount
\* raises the range error and returns nothing, an index in range returns the
\* value of that period
RangeChecked ==
  /\ call.op \in {"ampsAtPeriod", "cycleAtPeriod"} =>
       IF InRange(call.first)
       THEN call.result.kind = "ok"
       ELSE call.result.kind = RangeErrorKind
  /\ call.op = "ampsAtPeriod" /\ InRange(call.first) =>
       call.result.value = startingSequence[call.first].amps
  /\ call.op = "cycleAtPeriod" /\ InRange(call.first) =>
       call.result.value = startingSequence[call.first].cycle
  /\ DurationCall /\ ~(InRange(call.first) /\ InRange(call.last)) =>
       /\ call.result.kind = RangeErrorKind
       /\ call.result.value \in {"durationBetweenPeriods::firstPeriod",
                                 "durationBetweenPeriods::lastPeriod"}

\* C7: the accessors fail with the range error for any index < 1
\* or > periodCount, and durationBetweenPeriods with both bounds in range and
\* first > last fails with an error of another kind.
C7_OrderErrorDistinct ==
  /\ RangeChecked
  /\ OrderCall => call.result.kind \notin {"ok", RangeErrorKind}


\* ----- the section loop, stated on the inputs
Amps(p) == IF p = 0 THEN 0 ELSE startingSequence[p].amps

\* the skip rule: the load of the next period is higher
SkipRule(s) == s < startingSequenceLength /\ Amps(s) < Amps(s + 1)

\* the sections the loop has been through
Processed == IF pc = "sections" THEN section - 1 ELSE section

EvaluatedSections == {s \in 1..Processed : ~SkipRule(s)}

SkippedSections == {s \in 1..Processed : SkipRule(s)}

\* position of section s among the evaluated ones
Rank(s) == Cardinality({t \in EvaluatedSections : t <= s})

Kt(duration) == FDiv(testParams.nominalCapacity, F(curve[duration]))

\* the contribution of period p to section s
Contribution(p, s) ==
  FMul(FMul(F(Amps(p) - Amps(p - 1)), Kt(SumFromTo(startingSequence, p, s))),
       testParams.deratingFactorOnTemp)

RECURSIVE SumContributions(_, _)
SumContributions(p, s) ==
  IF p > s THEN F(0) ELSE FAdd(Contribution(p, s), SumContributions(p + 1, s))

\* the total the formula gives for section s
SectionFormula(s) == SumContributions(1, s)

Line(field, s) == [field |-> field, section |-> s]

Printed(field, s) == \E i \in 1..Len(printed) : printed[i] = Line(field, s)

\* C1: the total of every evaluated section S is the sum over period = 1..S
\* of (current(period) - current(period-1)) * Kt(duration from period to the
\* end of S) * deratingFactorOnTemp, with current(0) = 0 in every section,
\* negative load changes added like the positive ones.
C1_SectionTotal ==
  \A s \in EvaluatedSections :
    /\ Rank(s) <= Len(requiredSizesPerSection)
    /\ requiredSizesPerSection[Rank(s)] = SectionFormula(s)

C1_Witness ==
  /\ pc = "done"
  /\ \E s \in EvaluatedSections :
       /\ s >= 2
       /\ Amps(s) < Amps(s - 1)
       /\ Rank(s) = 2
       /\ IsFinite(requiredSizesPerSection[2])
       /\ requiredSizesPerSection[2] # requiredSizesPerSection[1]

\* C2: section S is skipped if and only if S < periodCount and current(S) <
\* current(S+1); a skipped section appends nothing to the section totals and
\* an evaluated one appends exactly one value, so that the number of totals
\* is the number of non-skipped sections.
C2_SkipRule ==
  /\ Len(requiredSizesPerSection) = Cardinality(EvaluatedSections)
  /\ testParams.verbose =>
       \A s \in 1..testParams.numberOfSections :
         /\ Printed("skipped", s) <=> s \in SkippedSections
         /\ Printed("total", s) <=> s \in EvaluatedSections

C2_Witness ==
  /\ pc = "cycleNb"
  /\ testParams.verbose
  /\ SkippedSections # {}
  /\ EvaluatedSections # {}
  /\ Len(requiredSizesPerSection) < testParams.numberOfSections


\* ----- the skip rule and the maximum
MaximumKnown == maximumSectionSize # Unassigned

Queried == QueriedDurations(startingSequence, testParams.numberOfSections)

\* every Kt the run computes is positive
PositiveKt == \A d \in Queried : curve[d] > 0

\* Kt does not decrease with the duration (the curve does not rise)
KtNonDecreasing ==
  \A d1 \in Queried, d2 \in Queried : d1 <= d2 => curve[d1] >= curve[d2]

LoadsNonDecreasing ==
  \A p \in 1..(testParams.numberOfSections - 1) : Amps(p) <= Amps(p + 1)

\* C3 as stated: with positive durations, non-negative currents and positive
\* Kt values, the total the formula gives for a skipped section never
\* exceeds maximumSectionSize.
C3_SkipSound ==
  MaximumKnown /\ PositiveKt =>
    \A s \in SkippedSections : FLe(SectionFormula(s), maximumSectionSize)

\* what the skip is sound for: the formula's total of no section
\* 1..numberOfSections, skipped or not, exceeds maximumSectionSize, which is
\* the total of one of the evaluated sections
MaximumCoversSections ==
  /\ \A s \in 1..testParams.numberOfSections :
       FLe(SectionFormula(s), maximumSectionSize)
  /\ \E s \in EvaluatedSections : maximumSectionSize = SectionFormula(s)

\* C3, amended: skipping is sound for the maximum when, besides Kt being
\* positive, Kt does not decrease with the duration, the currents of periods
\* 1..numberOfSections do not decrease, and section numberOfSections is not
\* skipped: then the formula's total of no section 1..numberOfSections,
\* skipped or not, exceeds maximumSectionSize, which is the total of one of
\* the evaluated sections.
C3_SkipSoundMonotone ==
  /\ MaximumKnown
  /\ PositiveKt
  /\ KtNonDecreasing
  /\ LoadsNonDecreasing
  /\ ~SkipRule(testParams.numberOfSections)
  => MaximumCoversSections

\* a run of three sections on a curve that falls, with a skipped section
\* between two evaluated ones whose total is neither zero nor the maximum
C3_Witness ==
  /\ pc = "done"
  /\ PositiveKt
  /\ KtNonDecreasing
  /\ LoadsNonDecreasing
  /\ ~SkipRule(testParams.numberOfSections)
  /\ testParams.numberOfSections = 3
  /\ \E s \in SkippedSections :
       /\ SectionFormula(s) # maximumSectionSize
       /\ SectionFormula(s) # F(0)
       /\ \E r \in EvaluatedSections : r < s
       /\ \E t \in EvaluatedSections : s < t
  /\ \E d1 \in Queried, d2 \in Queried : curve[d1] # curve[d2]

\* none of the three added conditions can be left out. Without the currents
\* being non-decreasing, a load that falls and rises again before the last
\* section leaves a skipped section above the maximum although Kt does not
\* decrease (three periods are needed)
C3_SkipSoundAnyLoads ==
  /\ MaximumKnown
  /\ PositiveKt
  /\ KtNonDecreasing
  /\ ~SkipRule(testParams.numberOfSections)
  => \A s \in SkippedSections : FLe(SectionFormula(s), maximumSectionSize)

\* without section numberOfSections being evaluated, the last section can be
\* a skipped one that no later section covers
C3_SkipSoundAnyLast ==
  /\ MaximumKnown
  /\ PositiveKt
  /\ KtNonDecreasing
  /\ LoadsNonDecreasing
  => \A s \in SkippedSections : FLe(SectionFormula(s), maximumSectionSize)

\* without Kt being non-decreasing, a curve that rises with the duration
\* gives the later, evaluated section a smaller total than the skipped one
C3_SkipSoundAnyKt ==
  /\ MaximumKnown
  /\ PositiveKt
  /\ LoadsNonDecreasing
  /\ ~SkipRule(testParams.numberOfSections)
  => \A s \in SkippedSections : FLe(SectionFormula(s), maximumSectionSize)


\* ----- the aggregation
Totals == {requiredSizesPerSection[i] : i \in 1..Len(requiredSizesPerSection)}

\* m is the maximum of the section totals (nan as soon as one total is nan)
IsMaxOfTotals(m) ==
  IF NaN \in Totals THEN m = NaN
  ELSE m \in Totals /\ \A t \in Totals : FLe(t, m)

\* (correctedSize * finalTolerance + nominalCapacity) / nominalCapacity
Quotient ==
  FDiv(FAdd(FMul(size, testParams.finalTolerance), testParams.nominalCapacity),
       testParams.nominalCapacity)

\* k is the floor of the finite double q
IsFloor(k, q) == k * q[2] <= q[1] /\ q[1] < (k + 1) * q[2]

\* k is the finite double q truncated toward zero
IsTruncation(k, q) ==
  IF q[1] >= 0 THEN IsFloor(k, q)
  ELSE (k - 1) * q[2] < q[1] /\ q[1] <= k * q[2]

ReportSizes ==
  /\ MaximumKnown =>
       /\ requiredSizesPerSection # <<>>
       /\ IsMaxOfTotals(maximumSectionSize)
       /\ uncorrectedSize = FAdd(maximumSectionSize, testParams.randomSize)
  /\ size # Unassigned =>
       size = FMul(FMul(uncorrectedSize, testParams.designMargin),
                   testParams.agingFactor)

\* C4 as stated: maxSectionSize = max(sectionTotals), uncorrectedSize =
\* maxSectionSize + randomSize, correctedSize = uncorrectedSize * designMargin
\* * agingFactor and numberOfBatteriesRequired = floor((correctedSize *
\* finalTolerance + nominalCapacity) / nominalCapacity), negative quotients
\* included.
C4_BatteriesFloor ==
  /\ ReportSizes
  /\ pc = "done" =>
       /\ IsFinite(Quotient)
       /\ IsFloor(numberOfBatteriesRequired[1], Quotient)

\* C4, amended: on every run that completes, maxSectionSize, uncorrectedSize
\* and correctedSize are as stated and numberOfBatteriesRequired is the
\* quotient (correctedSize * finalTolerance + nominalCapacity) /
\* nominalCapacity truncated toward zero: its floor when the quotient is not
\* negative, its ceiling when it is negative.
C4_BatteriesTruncated ==
  /\ ReportSizes
  /\ pc = "done" =>
       /\ IsFinite(Quotient)
       /\ IsTruncation(numberOfBatteriesRequired[1], Quotient)

C4_Witness ==
  /\ pc = "done"
  /\ PositiveKt
  /\ Quotient[1] < 0
  /\ Quotient[2] > 1
  /\ numberOfBatteriesRequired[1] * Quotient[2] > Quotient[1]


\* ----- the errors and the report
ReportFields ==
  <<"testedCycleNumber", "maxSectionSize", "uncorrectedSize", "correctedSize",
    "numberOfBatteriesRequired">>

\* the fields of the report written so far
Surfaced == {ReportFields[i] : i \in {j \in 1..5 : Printed(ReportFields[j], 0)}}

SectionsInRange == InRange(testParams.numberOfSections)

AllSkipped ==
  SectionsInRange /\ \A s \in 1..testParams.numberOfSections : SkipRule(s)

EmptyMaximum == "zero-size array to reduction operation maximum"

\* C5: when every section 1..numberOfSections is skipped the aggregation
\* fails on the empty set of totals (numpy's ValueError) and produces no
\* maxSectionSize, uncorrectedSize, correctedSize or
\* numberOfBatteriesRequired; no default maximum is substituted.
C5_EmptyResult ==
  AllSkipped =>
    /\ maximumSectionSize = Unassigned
    /\ uncorrectedSize = Unassigned
    /\ size = Unassigned
    /\ numberOfBatteriesRequired = Unassigned
    /\ Surfaced \subseteq {"testedCycleNumber"}
    /\ pc \in {"checkSections", "sections", "cycleNb", "maximum", "failed"}
    /\ pc = "failed" =>
         /\ error = Raise("ValueError", EmptyMaximum)
         /\ requiredSizesPerSection = <<>>

C5_Witness ==
  /\ AllSkipped
  /\ pc = "failed"
  /\ testParams.numberOfSections < startingSequenceLength
  /\ error.kind = "ValueError"
  /\ Surfaced = {"testedCycleNumber"}

\* C9: on a run that ends in an error no field of the report has been
\* surfaced.
C9_NoPartialReport == pc = "failed" => Surfaced = {}

\* C10: the section of the last period is never skipped, whatever the
\* currents; so with numberOfSections = periodCount the set of section totals
\* is not empty when the aggregation starts and the maximum is defined; and
\* the skip test never reads the current of period periodCount + 1.
C10_LastSectionEvaluated ==
  /\ pc = "sections" /\ section = startingSequenceLength =>
       skipTest(section) = Ok(FALSE)
  /\ Processed = startingSequenceLength =>
       /\ startingSequenceLength \in EvaluatedSections
       /\ requiredSizesPerSection # <<>>
       /\ pc = "failed" => error.value # EmptyMaximum
  /\ pc \in {"size", "batteries", "done"} => MaximumKnown
  /\ pc = "failed" => error.value # "ampsAtPeriod::period"

C10_Witness ==
  /\ pc = "size"
  /\ testParams.numberOfSections = startingSequenceLength
  /\ startingSequenceLength >= 2
  /\ SkippedSections = 1..(startingSequenceLength - 1)
  /\ Len(requiredSizesPerSection) = 1


\* the durations section s asks the curve for
SectionDurations(s) == {SumFromTo(startingSequence, p, s) : p \in 1..s}

\* C8 as stated: ktFactorFunction fails when the interpolated current is
\* <= 0, so that no section total is computed from a zero, negative or
\* infinite Kt: every section whose total has been appended read the curve
\* only where it is positive, and all its Kt values are positive and finite.
C8_NumericError ==
  \A s \in EvaluatedSections :
    \A d \in SectionDurations(s) :
      /\ curve[d] > 0
      /\ IsFinite(Kt(d))
      /\ Kt(d)[1] > 0

====
